---- MODULE Spec2Model ----
(***************************************************************************)
(* Capacity-charge model of src/app/page.tsx (EnergyModelingApp): the cost *)
(* model, the brute-force optimizer, the derived figures and the drag      *)
(* controller of the contracted-capacity reference line.                   *)
(*                                                                         *)
(* Numbers.  Capacities and demands are JavaScript numbers that hold       *)
(* integers in every state of this model, or NaN; they are modelled as     *)
(* integers, with NaN as a reserved value that no arithmetic produces.     *)
(* Currency amounts are IEEE-754 doubles.  Every amount the program        *)
(* computes here is below 2^20 in magnitude and is a multiple of 2^-48, so *)
(* a double is modelled exactly as a sign and a fixed-point magnitude      *)
(*      int + f1/2^16 + f2/2^32 + f3/2^48                                  *)
(* and every arithmetic operation computes the exact result and then       *)
(* rounds it to 53 significant bits, ties to even, as the hardware does.   *)
(***************************************************************************)
EXTENDS Integers, Sequences, FiniteSets, TLC

(***************************************************************************)
(* IEEE-754 double arithmetic                                              *)
(***************************************************************************)
Limb == 2 ^ 16

FNaN == [s |-> 0, int |-> 0, f1 |-> 0, f2 |-> 0, f3 |-> 0]

FZero == [s |-> 1, int |-> 0, f1 |-> 0, f2 |-> 0, f3 |-> 0]

FIsNaN(x) == x.s = 0

\* Carry propagation: limbs back into 0..Limb-1 (the value is non-negative).
Norm(i, a, b, c) ==
    LET c3 == c \div Limb
        b2 == b + c3
        c2 == b2 \div Limb
        a1 == a + c2
        c1 == a1 \div Limb
    IN  [int |-> i + c1, f1 |-> a1 % Limb, f2 |-> b2 % Limb, f3 |-> c % Limb]

RECURSIVE BitLen(_)
BitLen(n) == IF n = 0 THEN 0 ELSE 1 + BitLen(n \div 2)

\* Round a non-negative exact magnitude to 53 significant bits, ties to even.
\* A magnitude in [2^E, 2^(E+1)) keeps multiples of 2^(E-52): below 32 every
\* multiple of 2^-48 is representable, above it the low E-4 bits of f3 go.
RoundMag(m) ==
    LET k    == IF m.int < 32 THEN 0 ELSE BitLen(m.int) - 5
        p    == 2 ^ k
        r    == m.f3 % p
        base == m.f3 - r
        odd  == IF k = 16 THEN m.f2 % 2 = 1 ELSE (base \div p) % 2 = 1
        up   == (2 * r > p) \/ (2 * r = p /\ odd)
    IN  Norm(m.int, m.f1, m.f2, IF up THEN base + p ELSE base)

MagLess(x, y) ==
    \/ x.int < y.int
    \/ x.int = y.int /\ x.f1 < y.f1
    \/ x.int = y.int /\ x.f1 = y.f1 /\ x.f2 < y.f2
    \/ x.int = y.int /\ x.f1 = y.f1 /\ x.f2 = y.f2 /\ x.f3 < y.f3

Signed(sgn, m) ==
    IF m.int = 0 /\ m.f1 = 0 /\ m.f2 = 0 /\ m.f3 = 0 THEN FZero
    ELSE [s |-> sgn, int |-> m.int, f1 |-> m.f1, f2 |-> m.f2, f3 |-> m.f3]

\* x + y in double arithmetic
FAdd(x, y) ==
    IF FIsNaN(x) \/ FIsNaN(y) THEN FNaN
    ELSE IF x.s = y.s
         THEN Signed(x.s, RoundMag(Norm(x.int + y.int, x.f1 + y.f1,
                                          x.f2 + y.f2, x.f3 + y.f3)))
    ELSE IF MagLess(x, y)
         THEN Signed(y.s, RoundMag(Norm(y.int - x.int, y.f1 - x.f1,
                                          y.f2 - x.f2, y.f3 - x.f3)))
    ELSE Signed(x.s, RoundMag(Norm(x.int - y.int, x.f1 - y.f1,
                                     x.f2 - y.f2, x.f3 - y.f3)))

FNeg(x) == IF FIsNaN(x) \/ x = FZero THEN x ELSE [x EXCEPT !.s = 0 - x.s]

\* x - y in double arithmetic
FSub(x, y) == FAdd(x, FNeg(y))

\* x < y and x >= y on doubles: every comparison with NaN is false
FLess(x, y) ==
    /\ ~FIsNaN(x)
    /\ ~FIsNaN(y)
    /\ \/ x.s < y.s
       \/ x.s = 1 /\ y.s = 1 /\ MagLess(x, y)
       \/ x.s = -1 /\ y.s = -1 /\ MagLess(y, x)

FGeq(x, y) == ~FIsNaN(x) /\ ~FIsNaN(y) /\ ~FLess(x, y)

(***************************************************************************)
(* Numbers that hold integers, or NaN                                      *)
(***************************************************************************)
NaN == -999999

IsNaN(x) == x = NaN

\* Math.max(0, a - b)
MaxZeroDiff(a, b) ==
    IF IsNaN(a) \/ IsNaN(b) THEN NaN
    ELSE IF a - b > 0 THEN a - b ELSE 0

\* n * rate in double arithmetic, n a non-negative integer or NaN
FMulInt(n, rate) ==
    IF IsNaN(n) THEN FNaN
    ELSE Signed(1, RoundMag(Norm(n * rate.int, n * rate.f1,
                                   n * rate.f2, n * rate.f3)))

(***************************************************************************)
(* Cost model                                                              *)
(***************************************************************************)
months == <<"May", "Jun", "Jul", "Aug", "Sep", "Oct", "Nov", "Dec">>

maxDemands == <<3114, 2736, 1467, 3894, 3085, 3077, 3113, 3098>>

\* the double nearest to 16.37 ($/kW/month contracted)
ContractedRate == [int |-> 16, f1 |-> 24248, f2 |-> 20971, f3 |-> 34079]

\* the double nearest to 24.56 ($/kW/month of exceedance)
UncontractedRate == [int |-> 24, f1 |-> 36700, f2 |-> 10485, f3 |-> 49807]

\* capacity of the original scenario
OriginalCapacity == 3100

Months == 1..Len(maxDemands)

effectiveDemands(battery) ==
    [i \in Months |-> MaxZeroDiff(maxDemands[i], battery)]

RECURSIVE MinOver(_, _)
MinOver(f, n) ==
    IF n = 1 THEN f[1]
    ELSE LET m == MinOver(f, n - 1) IN IF f[n] < m THEN f[n] ELSE m

RECURSIVE MaxOver(_, _)
MaxOver(f, n) ==
    IF n = 1 THEN f[1]
    ELSE LET m == MaxOver(f, n - 1) IN IF f[n] > m THEN f[n] ELSE m

minEffectiveDemand(battery) == MinOver(effectiveDemands(battery), Len(maxDemands))

maxEffectiveDemand(battery) == MaxOver(effectiveDemands(battery), Len(maxDemands))

\* calculateMonthlyCharge with the operands of the exceedance exchanged
calculateMonthlyChargeSwapped(effectiveDemand, capacity) ==
    LET contractedCharge   == FMulInt(capacity, ContractedRate)
        exceedance         == MaxZeroDiff(capacity, effectiveDemand)
        uncontractedCharge == FMulInt(exceedance, UncontractedRate)
    IN  FAdd(contractedCharge, uncontractedCharge)

calculateMonthlyCharge(effectiveDemand, capacity) ==
    LET contractedCharge   == FMulInt(capacity, ContractedRate)
        exceedance         == MaxZeroDiff(effectiveDemand, capacity)
        uncontractedCharge == FMulInt(exceedance, UncontractedRate)
    IN  FAdd(contractedCharge, uncontractedCharge)

\* charges.reduce((sum, c) => sum + c, 0) over the first n entries
RECURSIVE SumTo(_, _)
SumTo(charges, n) ==
    IF n = 0 THEN FZero ELSE FAdd(SumTo(charges, n - 1), charges[n])

calculateTotalCharge(battery, capacity) ==
    LET eff == effectiveDemands(battery)
    IN  SumTo([i \in Months |-> calculateMonthlyCharge(eff[i], capacity)],
              Len(maxDemands))

(***************************************************************************)
(* Optimizer                                                               *)
(***************************************************************************)
\* the initial minCost, Infinity: above every number
FInfinity == [s |-> 2, int |-> 0, f1 |-> 0, f2 |-> 0, f3 |-> 0]

\* let optimalCapacity = 0; let minCost = Infinity
ScanStart == [optimalCapacity |-> 0, minCost |-> FInfinity]

\* One pass of the loop body from the initial state: the candidate is adopted
\* when its cost is below Infinity.
ScanOne(battery, capacity) ==
    LET totalCost == calculateTotalCharge(battery, capacity)
    IN  IF FLess(totalCost, ScanStart.minCost)
        THEN [optimalCapacity |-> capacity, minCost |-> totalCost]
        ELSE ScanStart

\* ScanJoin with `totalCost > minCost'
ScanJoinCostlier(earlier, later) ==
    IF FLess(earlier.minCost, later.minCost) THEN later ELSE earlier

\* `if (totalCost < minCost)': the later candidate replaces the earlier one
\* only when strictly cheaper.
ScanJoin(earlier, later) ==
    IF FLess(later.minCost, earlier.minCost) THEN later ELSE earlier

\* The loop over the candidates 1000 + 10*lo .. 1000 + 10*hi, in order.  The
\* left-to-right scan is evaluated over the two halves of the range (keeping
\* the first strict minimum is associative), which keeps the evaluation depth
\* logarithmic in the 301 candidates.
RECURSIVE ScanRange(_, _, _)
ScanRange(battery, lo, hi) ==
    IF lo = hi THEN ScanOne(battery, 1000 + 10 * lo)
    ELSE LET mid == (lo + hi) \div 2
         IN  ScanJoin(ScanRange(battery, lo, mid),
                      ScanRange(battery, mid + 1, hi))

\* for (let capacity = 1000; capacity <= 4000; capacity += 10)
findOptimalCapacity(battery) ==
    ScanRange(battery, 0, (4000 - 1000) \div 10).optimalCapacity

(***************************************************************************)
(* Derivation: the figures the component computes on every render          *)
(***************************************************************************)
NumGreater(a, b) == ~IsNaN(a) /\ ~IsNaN(b) /\ a > b

NumLess(a, b) == ~IsNaN(a) /\ ~IsNaN(b) /\ a < b

monthlyCharges(battery, contracted) ==
    LET eff == effectiveDemands(battery)
    IN  [i \in Months |-> calculateMonthlyCharge(eff[i], contracted)]

totalCharge(battery, contracted) ==
    SumTo(monthlyCharges(battery, contracted), Len(maxDemands))

originalCharges ==
    [i \in Months |-> calculateMonthlyCharge(maxDemands[i], OriginalCapacity)]

totalOriginalCharge == SumTo(originalCharges, Len(maxDemands))

\* savings with the operands exchanged
savingsSwapped(battery, contracted) ==
    FSub(totalCharge(battery, contracted), totalOriginalCharge)

savings(battery, contracted) ==
    FSub(totalOriginalCharge, totalCharge(battery, contracted))

isPositiveSavings(battery, contracted) ==
    FGeq(savings(battery, contracted), FZero)

TooLow == "too low: exceedance penalties"

TooHigh == "too high: overpayment in fixed charges"

BatteryHelps == "the battery reduces peak demand"

\* negativeReason comparing with the raw demands
negativeReasonRaw(battery, contracted) ==
    IF NumGreater(contracted, MaxOver(maxDemands, Len(maxDemands))) THEN TooHigh
    ELSE IF NumLess(contracted, MinOver(maxDemands, Len(maxDemands))) THEN TooLow
    ELSE TooLow

negativeReason(battery, contracted) ==
    IF NumGreater(contracted, maxEffectiveDemand(battery)) THEN TooHigh
    ELSE IF NumLess(contracted, minEffectiveDemand(battery)) THEN TooLow
    ELSE TooLow

\* monthlySavings with the original charge taken on the effective demand
monthlySavingsEffective(battery, contracted) ==
    LET newCharges == monthlyCharges(battery, contracted)
        eff        == effectiveDemands(battery)
    IN  [i \in Months |->
            FSub(calculateMonthlyCharge(eff[i], OriginalCapacity),
                 newCharges[i])]

monthlySavings(battery, contracted) ==
    LET newCharges == monthlyCharges(battery, contracted)
    IN  [i \in Months |->
            FSub(calculateMonthlyCharge(maxDemands[i], OriginalCapacity),
                 newCharges[i])]

\* the sentence of the rationale paragraph
rationale(battery, contracted) ==
    IF isPositiveSavings(battery, contracted) THEN BatteryHelps
    ELSE negativeReason(battery, contracted)

(***************************************************************************)
(* Drag mapping                                                            *)
(***************************************************************************)
\* newCapacity with Math.floor for Math.round
newCapacityFloor(yPixel, chartHeight) ==
    (((chartHeight - yPixel) * 400) \div chartHeight) * 10

\* Math.round((1 - yPixel / chartHeight) * 4000 / 10) * 10 over a chart of
\* height chartHeight > 0.  Math.round rounds to the nearest integer, a tie
\* towards +Infinity.  (For the heights of this model the double computation
\* yields the integer computed here.)
newCapacity(yPixel, chartHeight) ==
    (((chartHeight - yPixel) * 800 + chartHeight) \div (2 * chartHeight)) * 10

ClampCapacity(n) ==
    IF IsNaN(n) THEN NaN
    ELSE LET low == IF n < 4000 THEN n ELSE 4000
         IN  IF low > 1000 THEN low ELSE 1000

\* The value handleMouseMove passes to setContractedCapacity.  Over a chart
\* of height 0, yPixel / chartHeight is 0 / 0 = NaN for yPixel = 0, which
\* Math.round, Math.min and Math.max keep; for another yPixel it is an
\* infinity, which the clamp brings to a boundary.
draggedCapacity(yPixel, chartHeight) ==
    IF chartHeight = 0
    THEN IF yPixel = 0 THEN NaN ELSE IF yPixel < 0 THEN 4000 ELSE 1000
    ELSE ClampCapacity(newCapacity(yPixel, chartHeight))

(***************************************************************************)
(* Bounds of the model: the values typed into the two inputs and the       *)
(* pointer positions and chart heights of the mouse events                 *)
(***************************************************************************)
MaxTypedBattery == 4

MaxTypedContracted == 5

MaxHeight == 2

MaxPointerY == 2

\* typed battery capacities: negative, on and off the 10 kW step, above 1000
TypedBattery == {275 * k : k \in -1..MaxTypedBattery}

\* typed contracted capacities; the empty field reads as 0
TypedContracted == {875 * k : k \in 0..MaxTypedContracted}

\* chart heights, 0 for a collapsed chart
Heights == {16 * k : k \in 0..MaxHeight}

\* pointer offsets from the top of the chart: above it, inside it, on its
\* lower edge and below it
PointerYs ==
    {-1} \cup {7 * k : k \in 0..MaxPointerY} \cup Heights
         \cup {h + 1 : h \in Heights}

\* the values the battery input offers: min 0, max 1000, step 10
BatteryGrid == {b \in 0..1000 : b % 10 = 0}

\* the values the contracted-capacity input offers: min 1000, max 4000, step 10
CapacityGrid == {c \in 1000..4000 : c % 10 = 0}

(***************************************************************************)
(* Tabulation.  The optimizer and the derived figures are pure functions   *)
(* of (batteryCapacity, contractedCapacity); they are evaluated once for   *)
(* the values the interactive session reaches, and directly elsewhere.     *)
(***************************************************************************)
figures(battery, contracted) ==
    [monthlyCharges    |-> monthlyCharges(battery, contracted),
     totalCharge       |-> totalCharge(battery, contracted),
     savings           |-> savings(battery, contracted),
     isPositiveSavings |-> isPositiveSavings(battery, contracted),
     monthlySavings    |-> monthlySavings(battery, contracted),
     rationale         |-> rationale(battery, contracted)]

SessionBattery == {400} \cup TypedBattery

OptimalTable == [b \in SessionBattery |-> findOptimalCapacity(b)]

optimalCapacityFor(battery) ==
    IF battery \in DOMAIN OptimalTable THEN OptimalTable[battery]
    ELSE findOptimalCapacity(battery)

SessionContracted ==
    {3100, NaN} \cup TypedContracted
        \cup {OptimalTable[b] : b \in SessionBattery}
        \cup {draggedCapacity(y, h) : y \in PointerYs, h \in Heights}

FiguresTable ==
    [b \in SessionBattery |-> [c \in SessionContracted |-> figures(b, c)]]

figuresFor(battery, contracted) ==
    IF battery \in SessionBattery /\ contracted \in SessionContracted
    THEN FiguresTable[battery][contracted]
    ELSE figures(battery, contracted)

(***************************************************************************)
(* State                                                                   *)
(***************************************************************************)
VARIABLES
    batteryCapacity,      \* useState(400)
    contractedCapacity,   \* useState(3100)
    explanation,          \* useState(null): << >>, or <<c>> for the message
                          \* that names the capacity c
    isDragging,           \* useState(false)
    isHovering,           \* useState(false)
    lastEvent             \* the event handled last, with the pointer offset
                          \* and chart height of a mouse move

vars == <<batteryCapacity, contractedCapacity, explanation, isDragging,
          isHovering, lastEvent>>

Event(kind, y, h) == [kind |-> kind, y |-> y, h |-> h]

Init ==
    /\ batteryCapacity = 400
    /\ contractedCapacity = 3100
    /\ explanation = << >>
    /\ isDragging = FALSE
    /\ isHovering = FALSE
    /\ lastEvent = Event("none", 0, 0)

\* BatteryInputChange that also clears the explanation
BatteryInputChangeClearing(typed) ==
    /\ batteryCapacity' = typed
    /\ explanation' = << >>
    /\ lastEvent' = Event("battery", 0, 0)
    /\ UNCHANGED <<contractedCapacity, isDragging, isHovering>>

\* onChange of the battery input: setBatteryCapacity(Number(e.target.value))
BatteryInputChange(typed) ==
    /\ batteryCapacity' = typed
    /\ lastEvent' = Event("battery", 0, 0)
    /\ UNCHANGED <<contractedCapacity, explanation, isDragging, isHovering>>

\* onChange of the contracted-capacity input
ContractedInputChange(typed) ==
    /\ contractedCapacity' = typed
    /\ lastEvent' = Event("contracted", 0, 0)
    /\ UNCHANGED <<batteryCapacity, explanation, isDragging, isHovering>>

handleSetOptimalCapacity ==
    LET optimalCapacity == optimalCapacityFor(batteryCapacity)
    IN  /\ contractedCapacity' = optimalCapacity
        /\ explanation' = <<optimalCapacity>>
        /\ lastEvent' = Event("optimal", 0, 0)
        /\ UNCHANGED <<batteryCapacity, isDragging, isHovering>>

\* onMouseDown of the chart
MouseDown ==
    /\ isDragging' = TRUE
    /\ lastEvent' = Event("down", 0, 0)
    /\ UNCHANGED <<batteryCapacity, contractedCapacity, explanation, isHovering>>

\* onMouseEnter of the chart
MouseEnter ==
    /\ isHovering' = TRUE
    /\ lastEvent' = Event("enter", 0, 0)
    /\ UNCHANGED <<batteryCapacity, contractedCapacity, explanation, isDragging>>

\* mouseup on the chart: handleMouseUp
MouseUp ==
    /\ isDragging' = FALSE
    /\ lastEvent' = Event("up", 0, 0)
    /\ UNCHANGED <<batteryCapacity, contractedCapacity, explanation, isHovering>>

\* MouseLeave without the mouseleave listener
MouseLeaveHoverOnly ==
    /\ isHovering' = FALSE
    /\ lastEvent' = Event("leave", 0, 0)
    /\ UNCHANGED <<batteryCapacity, contractedCapacity, explanation, isDragging>>

\* mouseleave on the chart: onMouseLeave and the handleMouseUp listener
MouseLeave ==
    /\ isHovering' = FALSE
    /\ isDragging' = FALSE
    /\ lastEvent' = Event("leave", 0, 0)
    /\ UNCHANGED <<batteryCapacity, contractedCapacity, explanation>>

\* MoveApplies without the test of yPixel
MoveAppliesAnywhere(yPixel, chartHeight) == isDragging

\* the condition under which handleMouseMove sets the capacity
MoveApplies(yPixel, chartHeight) ==
    isDragging /\ yPixel >= 0 /\ yPixel <= chartHeight

\* mousemove on the chart, yPixel = e.clientY - chartRect.top
handleMouseMove(yPixel, chartHeight) ==
    /\ contractedCapacity' =
          IF MoveApplies(yPixel, chartHeight)
          THEN draggedCapacity(yPixel, chartHeight)
          ELSE contractedCapacity
    /\ lastEvent' = Event("move", yPixel, chartHeight)
    /\ UNCHANGED <<batteryCapacity, explanation, isDragging, isHovering>>

Next ==
    \/ \E typed \in TypedBattery : BatteryInputChange(typed)
    \/ \E typed \in TypedContracted : ContractedInputChange(typed)
    \/ handleSetOptimalCapacity
    \/ MouseDown
    \/ MouseEnter
    \/ MouseUp
    \/ MouseLeave
    \/ \E y \in PointerYs, h \in Heights : handleMouseMove(y, h)

Spec == Init /\ [][Next]_vars

\* The optimizer as a function of the battery capacity: every value of the
\* battery input, and the typed ones.
InitOptimizer ==
    /\ batteryCapacity \in BatteryGrid \cup TypedBattery
    /\ contractedCapacity = 3100
    /\ explanation = << >>
    /\ isDragging = FALSE
    /\ isHovering = FALSE
    /\ lastEvent = Event("none", 0, 0)

NextOptimizer == handleSetOptimalCapacity

SpecOptimizer == InitOptimizer /\ [][NextOptimizer]_vars

\* the figures of the current render
Figures == figuresFor(batteryCapacity, contractedCapacity)

(***************************************************************************)
(* Claims                                                                  *)
(***************************************************************************)

\* C1 (as claimed): after any sequence of manual edits, drag moves and Set
\* Optimal Capacity, batteryCapacity is a multiple of 10 in [0,1000] and
\* contractedCapacity is a multiple of 10 in [1000,4000].
C1_ModelStateInBounds ==
    /\ batteryCapacity \in BatteryGrid
    /\ contractedCapacity \in CapacityGrid

\* C2: the capacity that Set Optimal Capacity stores is on the grid
\* 1000, 1010, .., 4000 (never the sentinel 0), no grid capacity has a lower
\* total charge, every lower grid capacity has a strictly higher one, and it
\* is the value findOptimalCapacity returns again for the same battery.
C2_OptimalIsFirstGridMinimum ==
    lastEvent.kind = "optimal" =>
        LET best == calculateTotalCharge(batteryCapacity, contractedCapacity)
        IN  /\ contractedCapacity \in CapacityGrid
            /\ contractedCapacity # 0
            /\ \A c \in CapacityGrid :
                  LET cost == calculateTotalCharge(batteryCapacity, c)
                  IN  /\ FGeq(cost, best)
                      /\ c < contractedCapacity => FLess(best, cost)
            /\ findOptimalCapacity(batteryCapacity) = contractedCapacity

C2_Witness ==
    /\ lastEvent.kind = "optimal"
    /\ batteryCapacity = 400
    /\ contractedCapacity = 2680

\* C3 (as claimed), over a chart of height H > 0: while dragging, a move
\* above the chart (y < 0) sets contractedCapacity to 4000, a move below it
\* (y > H) sets it to 1000, and a move inside it sets a capacity within
\* [1000,4000].
C3_DragClampToBoundary ==
    (lastEvent.kind = "move" /\ isDragging /\ lastEvent.h > 0) =>
        /\ lastEvent.y < 0 => contractedCapacity = 4000
        /\ lastEvent.y > lastEvent.h => contractedCapacity = 1000
        /\ (lastEvent.y >= 0 /\ lastEvent.y <= lastEvent.h)
              => /\ ~IsNaN(contractedCapacity)
                 /\ contractedCapacity >= 1000
                 /\ contractedCapacity <= 4000

\* C3 (amended): while dragging, a move with y < 0 or y > H leaves
\* contractedCapacity as it was, and a move inside a chart of height H > 0
\* leaves a capacity within [1000,4000].
C3_DragOutsideIgnored ==
    [][(lastEvent'.kind = "move" /\ isDragging) =>
          /\ (lastEvent'.y < 0 \/ lastEvent'.y > lastEvent'.h)
                => contractedCapacity' = contractedCapacity
          /\ (lastEvent'.y >= 0 /\ lastEvent'.y <= lastEvent'.h
                /\ lastEvent'.h > 0)
                => /\ ~IsNaN(contractedCapacity')
                   /\ contractedCapacity' >= 1000
                   /\ contractedCapacity' <= 4000]_vars

C3_Witness ==
    /\ lastEvent.kind = "move"
    /\ isDragging
    /\ lastEvent.y > lastEvent.h
    /\ lastEvent.h > 0
    /\ contractedCapacity = 3130

\* C4 (as claimed): a move handled while dragging over a chart of height 0
\* leaves contractedCapacity at its last value, and never NaN.
C4_ZeroHeightHoldsCapacity ==
    [][(lastEvent'.kind = "move" /\ lastEvent'.h = 0 /\ isDragging) =>
          /\ contractedCapacity' = contractedCapacity
          /\ ~IsNaN(contractedCapacity')]_vars

\* C5: while dragging, after a move with H > 0 and 0 <= y <= H the capacity
\* is max(1000, min(4000, q)), q the multiple of 10 nearest to
\* (1 - y/H) * 4000 (the upper one of two equally near): it is set by the
\* move itself, is a multiple of 10 and depends on (y, H) only.
C5_LiveDragMapping ==
    (/\ lastEvent.kind = "move"
     /\ isDragging
     /\ lastEvent.h > 0
     /\ lastEvent.y >= 0
     /\ lastEvent.y <= lastEvent.h) =>
        /\ ~IsNaN(contractedCapacity)
        /\ contractedCapacity % 10 = 0
        /\ \E n \in 0..400 :
              /\ (10 * n - 5) * lastEvent.h
                    <= (lastEvent.h - lastEvent.y) * 4000
              /\ (lastEvent.h - lastEvent.y) * 4000
                    < (10 * n + 5) * lastEvent.h
              /\ contractedCapacity =
                    IF 10 * n < 1000 THEN 1000
                    ELSE IF 10 * n > 4000 THEN 4000 ELSE 10 * n

C5_Witness ==
    /\ lastEvent = Event("move", 7, 32)
    /\ isDragging
    /\ contractedCapacity = 3130

\* An amount rounded to whole cents (a tie away from zero)
ToCents(amount) ==
    LET m == Norm(100 * amount.int, 100 * amount.f1,
                  100 * amount.f2, 100 * amount.f3)
    IN  amount.s * (m.int + IF m.f1 >= 2 ^ 15 THEN 1 ELSE 0)

\* The charge of one month in cents, in decimal arithmetic: 16.37 per
\* contracted kW and 24.56 per kW of exceedance
ChargeCents(demand, capacity) ==
    1637 * capacity + 2456 * (IF demand > capacity THEN demand - capacity ELSE 0)

\* Charge of month i in the original scenario minus its charge now, in cents
SavingCents(i) ==
    ChargeCents(maxDemands[i], 3100)
        - ChargeCents(IF maxDemands[i] > batteryCapacity
                      THEN maxDemands[i] - batteryCapacity ELSE 0,
                      contractedCapacity)

RECURSIVE SavingCentsTo(_)
SavingCentsTo(n) == IF n = 0 THEN 0 ELSE SavingCentsTo(n - 1) + SavingCents(n)

\* |a - b| < 2^-20 for two doubles
Within(a, b) ==
    LET d == FSub(a, b)
    IN  ~FIsNaN(d) /\ d.int = 0 /\ d.f1 = 0 /\ d.f2 < 2 ^ 12

\* C6 (as claimed), in the states whose capacities are within the ranges and
\* on the step of the inputs: netSavings equals the sum of the eight
\* monthlySavings exactly.
C6_DecompositionExact ==
    (batteryCapacity \in BatteryGrid /\ contractedCapacity \in CapacityGrid) =>
        LET total == SumTo(Figures.monthlySavings, Len(maxDemands))
        IN  ~FIsNaN(Figures.savings) /\ Figures.savings = total

\* C6 (amended): in every state netSavings and the sum of the eight
\* monthlySavings are the same amount to the cent and differ by less than
\* 2^-20 (both are NaN when contractedCapacity is NaN); monthlySavings[i] is,
\* to the cent, the charge of month i on the raw demand at 3100 less its
\* charge now.
C6_DecompositionToTheCent ==
    LET total == SumTo(Figures.monthlySavings, Len(maxDemands))
    IN  IF IsNaN(contractedCapacity)
        THEN FIsNaN(Figures.savings) /\ FIsNaN(total)
        ELSE /\ Within(Figures.savings, total)
             /\ ToCents(Figures.savings) = SavingCentsTo(Len(maxDemands))
             /\ ToCents(total) = SavingCentsTo(Len(maxDemands))
             /\ \A i \in Months :
                   ToCents(Figures.monthlySavings[i]) = SavingCents(i)

\* net savings with a month that costs more, and rounding drift in the sum
C6_Witness ==
    /\ batteryCapacity \in BatteryGrid
    /\ contractedCapacity \in CapacityGrid
    /\ FLess(FZero, Figures.savings)
    /\ \E i \in Months : FLess(Figures.monthlySavings[i], FZero)
    /\ Figures.savings # SumTo(Figures.monthlySavings, Len(maxDemands))

\* C7: the rationale shown is the battery one when netSavings >= 0, else the
\* over-contracting one when contractedCapacity exceeds every effective
\* demand, else the under-contracting one.
C7_RationaleClassification ==
    Figures.rationale =
        IF ~IsNaN(contractedCapacity) /\ SavingCentsTo(Len(maxDemands)) >= 0
        THEN BatteryHelps
        ELSE IF /\ ~IsNaN(contractedCapacity)
                /\ \A i \in Months :
                      /\ contractedCapacity > maxDemands[i] - batteryCapacity
                      /\ contractedCapacity > 0
             THEN TooHigh
             ELSE TooLow

\* negative savings with the capacity between the least and the greatest
\* effective demand
C7_Witness ==
    /\ ~IsNaN(contractedCapacity)
    /\ FLess(Figures.savings, FZero)
    /\ \E i \in Months : contractedCapacity > effectiveDemands(batteryCapacity)[i]
    /\ \E i \in Months : contractedCapacity < effectiveDemands(batteryCapacity)[i]
    /\ Figures.rationale = TooLow

\* C8 (as claimed): with battery 400 and capacity 3100 the effective demands
\* are 2714, 2336, 1067, 3494, 2685, 2677, 2713, 2698; July has exceedance 0
\* and charge 50,747.00; August has exceedance 394 and charge 60,424.64.
C8_ScenarioAsStated ==
    (batteryCapacity = 400 /\ contractedCapacity = 3100) =>
        /\ effectiveDemands(batteryCapacity)
              = <<2714, 2336, 1067, 3494, 2685, 2677, 2713, 2698>>
        /\ MaxZeroDiff(effectiveDemands(batteryCapacity)[3], contractedCapacity) = 0
        /\ ToCents(Figures.monthlyCharges[3]) = 5074700
        /\ MaxZeroDiff(effectiveDemands(batteryCapacity)[4], contractedCapacity) = 394
        /\ ToCents(Figures.monthlyCharges[4]) = 6042464

\* C8 (amended): the same, with the August charge 50,747 + 394 x 24.56 =
\* 60,423.64.
C8_Scenario ==
    (batteryCapacity = 400 /\ contractedCapacity = 3100) =>
        /\ effectiveDemands(batteryCapacity)
              = <<2714, 2336, 1067, 3494, 2685, 2677, 2713, 2698>>
        /\ MaxZeroDiff(effectiveDemands(batteryCapacity)[3], contractedCapacity) = 0
        /\ ToCents(Figures.monthlyCharges[3]) = 5074700
        /\ MaxZeroDiff(effectiveDemands(batteryCapacity)[4], contractedCapacity) = 394
        /\ ToCents(Figures.monthlyCharges[4]) = 6042364

C8_Witness ==
    /\ batteryCapacity = 400
    /\ contractedCapacity = 3100
    /\ lastEvent.kind = "up"

\* C9: isDragging turns true only on a mouse down and is false after every
\* mouse up and every mouse leave; a move handled while not dragging leaves
\* contractedCapacity unchanged.
C9_DragStateMachine ==
    [][/\ (~isDragging /\ isDragging') => lastEvent'.kind = "down"
       /\ lastEvent'.kind = "down" => isDragging'
       /\ lastEvent'.kind \in {"up", "leave"} => ~isDragging'
       /\ (lastEvent'.kind = "move" /\ ~isDragging)
             => contractedCapacity' = contractedCapacity]_vars

\* after a drag to 3130 has ended, a move over the top of the chart
C9_Witness ==
    /\ lastEvent = Event("move", 0, 32)
    /\ ~isDragging
    /\ contractedCapacity = 3130

\* C10: for every battery capacity 0, 10, .., 1000, right after Set Optimal
\* Capacity the total charge is at most the one at 3100 with the same
\* battery, which is at most the original total charge; netSavings >= 0 and
\* the rationale shown is the battery one.
C10_OptimalNeverCosts ==
    (lastEvent.kind = "optimal" /\ batteryCapacity \in BatteryGrid) =>
        LET atOriginal == calculateTotalCharge(batteryCapacity, OriginalCapacity)
        IN  /\ FGeq(atOriginal, Figures.totalCharge)
            /\ FGeq(totalOriginalCharge, atOriginal)
            /\ FGeq(Figures.savings, FZero)
            /\ Figures.isPositiveSavings
            /\ Figures.rationale = BatteryHelps

C10_Witness ==
    /\ lastEvent.kind = "optimal"
    /\ batteryCapacity = 0
    /\ contractedCapacity = 3080
    /\ Figures.rationale = BatteryHelps

\* C11: the explanation is null at the start and changes only in a Set
\* Optimal Capacity step, which writes the message naming the capacity that
\* findOptimalCapacity returned for the current battery (the capacity the step
\* stores); an edit of the battery or of the contracted capacity and a mouse
\* move leave the explanation as it was, and a mouse move and Set Optimal
\* Capacity leave batteryCapacity as it was.
C11_ExplanationFrame ==
    /\ explanation = << >>
    /\ [][/\ explanation' # explanation => lastEvent'.kind = "optimal"
          /\ lastEvent'.kind = "optimal"
                => /\ explanation' = <<optimalCapacityFor(batteryCapacity)>>
                   /\ explanation' = <<contractedCapacity'>>
          /\ lastEvent'.kind \in {"battery", "contracted", "move"}
                => explanation' = explanation
          /\ lastEvent'.kind \in {"move", "optimal"}
                => batteryCapacity' = batteryCapacity]_vars

\* the message written for battery 400 is still shown after the battery was
\* edited to 275 and the line dragged to 3130
C11_Witness ==
    /\ lastEvent = Event("move", 7, 32)
    /\ isDragging
    /\ explanation = <<2680>>
    /\ batteryCapacity = 275
    /\ contractedCapacity = 3130

====
